---------------------------- MODULE Spec2Model ----------------------------
(***************************************************************************)
(* Genome liftover pipeline (hg19 -> hg38): the post-processing of         *)
(* CrossMap's output (liftover.py: process_output_maf, run_crossmap, main) *)
(* and the validation of the lifted tables against the reference FASTA     *)
(* (validate.py: read_header_and_rows, check_columns, validate_file,       *)
(* main).                                                                  *)
(*                                                                         *)
(* liftover.py only takes lengths of and compares cell values, so its      *)
(* cells are strings.  validate.py strips, parses, upper-cases and slices  *)
(* its cells, so its cells are sequences of one-character strings.         *)
(***************************************************************************)
EXTENDS Integers, Sequences, FiniteSets, TLC

VARIABLES
    \* ---- liftover.py, process_output_maf ----
    maf,        \* the file at maf_path: a sequence of lines
    lines,      \* local `lines`: what the last call read
    df,         \* the DataFrame the last call returned
    err,        \* the exception the last call raised ("none" if it returned)
    passes,     \* number of calls of process_output_maf made on maf_path
    \* ---- liftover.py, main / run_crossmap ----
    indir,      \* data/input: the names of the *.txt files in it
    lfiles,     \* local `files` of main: the input files still to lift
    outdir,     \* data/output: file name -> lines
    unmap,      \* data/unmap: the names of the .unmap files moved there
    windir,     \* WIN_OUTPUT: file name -> lines of the TXT copy and the CSV
    lpc,        \* position of main: "start", "loop", "done", "no_input", "raised"
    \* ---- validate.py, main / validate_file ----
    disk,       \* data/output as validate.py finds it: file name -> file
    vqueue,     \* sorted(DATA_OUT.glob("*.txt")) still to validate
    vpc,        \* "main", "rows", "finish", "summary", "done", "raised"
    vfile,      \* name of the file validate_file is working on
    header,     \* local `header` of validate_file
    rows,       \* local `rows` of validate_file
    ri,         \* number of rows the for-loop has consumed
    total,      \* local `total`
    counts,     \* local `counts` (a Counter)
    bad_records,\* local `bad_records` (the reason of each entry)
    reports,    \* local `reports` of main
    written,    \* the *.validation.json files written so far (file names)
    agg,        \* validation_summary.json ("none" until written)
    overall     \* local `overall_mismatch` of main, <<numerator, denominator>>

lvars == <<maf, lines, df, err, passes>>
bvars == <<indir, lfiles, outdir, unmap, windir, lpc>>
vvars == <<disk, vqueue, vpc, vfile, header, rows, ri, total, counts,
           bad_records, reports, written, agg, overall>>
vars == <<lvars, bvars, vvars>>

----------------------------------------------------------------------------
(* Bounds of the model *)

MaxRows == 2
MaxComments == 1
MaxPasses == 2

----------------------------------------------------------------------------
(* Generic helpers *)

Range(s) == {s[i] : i \in 1..Len(s)}

Min(a, b) == IF a < b THEN a ELSE b

Max(a, b) == IF a > b THEN a ELSE b

SeqsUpTo(S, n) == UNION {[1..k -> S] : k \in 0..n}

IndexOf(s, x) == CHOOSE i \in 1..Len(s) : s[i] = x

----------------------------------------------------------------------------
(* liftover.py *)

FINAL_COLUMNS ==
    << "Hugo_Symbol", "Entrez_Gene_Id", "NCBI_Build", "Chromosome",
       "Start_Position", "End_Position", "Consequence",
       "Variant_Classification", "Variant_Type", "Reference_Allele",
       "Tumor_Seq_Allele1", "Tumor_Seq_Allele2", "Tumor_Sample_Barcode",
       "Transcript_ID", "RefSeq", "Gene", "Annotation_Status", "Filter",
       "Tissue", "Cancer_Type", "PMID", "Study", "Seq_Tech" >>

\* A line of a MAF file: `hash` says whether it starts with "#"; `cells` are
\* its tab-separated fields.
CommentLine(k) == [hash |-> TRUE, cells |-> << IF k = 1 THEN "#c1" ELSE "#c2" >>]

TableLine(cs) == [hash |-> FALSE, cells |-> cs]

\* comment_lines = [l for l in lines if l.startswith("#")]
comment_lines(ls) == SelectSeq(ls, LAMBDA l : l.hash)

\* table_lines = [l for l in lines if not l.startswith("#")]
table_lines(ls) == SelectSeq(ls, LAMBDA l : ~l.hash)

\* pd.read_csv(sep="\t", dtype=str, keep_default_na=False, na_filter=False):
\* the first table line is the header, every later one a record of strings.
read_csv(tls) ==
    LET cols == tls[1].cells
    IN  [columns |-> cols,
         rows |-> [i \in 1..(Len(tls) - 1) |->
                     [c \in Range(cols) |-> tls[i + 1].cells[IndexOf(cols, c)]]]]

\* row.get(key, default)
RowGet(row, key, default) == IF key \in DOMAIN row THEN row[key] ELSE default

\* The rule chain of classify on the two alleles.
ClassifyLengthFirst(ref, alt) ==
    IF Len(ref) > Len(alt) THEN "DEL"
    ELSE IF Len(ref) < Len(alt) THEN "INS"
    ELSE IF ref = "-" /\ alt = "-" THEN "-"
    ELSE IF Len(ref) = 1 /\ Len(alt) = 1 THEN "SNP"
    ELSE IF Len(ref) = Len(alt) /\ Len(alt) > 1 THEN "ONP"
    ELSE "-"

Classify(ref, alt) ==
    IF ref = "-" /\ alt = "-" THEN "-"
    ELSE IF alt = "-" /\ ref # "-" THEN "DEL"
    ELSE IF ref = "-" /\ alt # "-" THEN "INS"
    ELSE IF Len(ref) > Len(alt) THEN "DEL"
    ELSE IF Len(ref) < Len(alt) THEN "INS"
    ELSE IF Len(ref) = 1 /\ Len(alt) = 1 THEN "SNP"
    ELSE IF Len(ref) = Len(alt) /\ Len(alt) > 1 THEN "ONP"
    ELSE "-"

\* def classify(row)
classify(row) ==
    Classify(RowGet(row, "Reference_Allele", ""),
             RowGet(row, "Tumor_Seq_Allele2", ""))

\* df["Variant_Type"] = df.apply(classify, axis=1): an existing column is
\* overwritten in place, a new one is appended.
SetVariantType(d) ==
    [columns |-> IF "Variant_Type" \in Range(d.columns)
                 THEN d.columns
                 ELSE Append(d.columns, "Variant_Type"),
     rows |-> [i \in 1..Len(d.rows) |->
                 [c \in Range(d.columns) \cup {"Variant_Type"} |->
                     IF c = "Variant_Type" THEN classify(d.rows[i])
                     ELSE d.rows[i][c]]]]

\* for col in FINAL_COLUMNS: if col not in df.columns: df[col] = "-"
\* df = df[FINAL_COLUMNS]
EnforceSchema(d) ==
    [columns |-> FINAL_COLUMNS,
     rows |-> [i \in 1..Len(d.rows) |->
                 [c \in Range(FINAL_COLUMNS) |-> RowGet(d.rows[i], c, "-")]]]

\* df.replace("", "-", inplace=True)
ReplaceEmpty(d) ==
    [columns |-> d.columns,
     rows |-> [i \in 1..Len(d.rows) |->
                 [c \in DOMAIN d.rows[i] |->
                     IF d.rows[i][c] = "" THEN "-" ELSE d.rows[i][c]]]]

\* Lines 98-106 on a DataFrame with at least one record.
Normalize(d) == ReplaceEmpty(EnforceSchema(SetVariantType(d)))

\* df.to_csv(f, sep="\t", index=False): the header line, then one line a record
to_csv(d) ==
    << TableLine(d.columns) >> \o
    [i \in 1..Len(d.rows) |->
        TableLine([j \in 1..Len(d.columns) |-> d.rows[i][d.columns[j]]])]

NoFrame == [columns |-> << >>, rows |-> << >>]

\* What pandas does at line 98 with a header and no record depends on its
\* version and on the header: df.apply hands back either an empty Series
\* (the assignment works) or a copy of the empty frame (newer versions
\* refuse to assign it to one column: ValueError).
EmptyFrameOutcomes == {"none", "ValueError"}

\* The ways process_output_maf can end on the lines `ls`.
Outcomes(ls) ==
    IF table_lines(ls) # << >> /\ Len(table_lines(ls)) = 1
    THEN EmptyFrameOutcomes
    ELSE {"none"}

\* process_output_maf(maf_path) on a file holding `ls`, ending as e says: the
\* exception raised, the file left at maf_path, the DataFrame returned.
ProcessResult(ls, e) ==
    IF table_lines(ls) = << >>
    THEN \* raise RuntimeError("No data found in MAF file")
         [err |-> "RuntimeError", file |-> ls, df |-> NoFrame]
    ELSE IF e # "none"
    THEN [err |-> e, file |-> ls, df |-> NoFrame]
    ELSE LET d == Normalize(read_csv(table_lines(ls)))
         IN  [err |-> "none", file |-> comment_lines(ls) \o to_csv(d), df |-> d]

process_output_maf(ls) == {ProcessResult(ls, e) : e \in Outcomes(ls)}

\* A call of process_output_maf on the file in `maf`
ProcessOutputMaf ==
    /\ passes < MaxPasses
    /\ err = "none"
    /\ passes' = passes + 1
    /\ lines' = maf
    /\ \E r \in process_output_maf(maf) :
          /\ err' = r.err
          /\ maf' = r.file
          /\ df' = IF r.err = "none" THEN r.df ELSE df
    /\ UNCHANGED <<bvars, vvars>>

----------------------------------------------------------------------------
(* Input tables of process_output_maf *)

Alleles == {"", "-", "A", "T", "AT", "GC"}

SmallAlleles == {"", "-", "A"}

\* The headers tried, each with the values its columns take.
Headers ==
    { << "Reference_Allele", "Tumor_Seq_Allele2" >>,
      << "Hugo_Symbol", "Reference_Allele" >>,
      << "Tumor_Seq_Allele2", "Extra_Column" >>,
      << "Variant_Type", "Tumor_Seq_Allele2", "Reference_Allele" >>,
      << "Hugo_Symbol", "Extra_Column" >> }

ColVals(h, c) ==
    CASE c = "Hugo_Symbol" -> {"", "TP53"}
      [] c = "Extra_Column" -> {"", "x"}
      [] c = "Variant_Type" -> {"", "ONP"}
      [] OTHER -> IF Len(h) = 2 /\ Range(h) \subseteq {"Reference_Allele", "Tumor_Seq_Allele2"}
                  THEN Alleles ELSE SmallAlleles

RecordsOf(h) == {r \in [Range(h) -> Alleles \cup {"TP53", "x", "ONP"}] :
                    \A c \in Range(h) : r[c] \in ColVals(h, c)}

DataLine(h, r) == TableLine([j \in 1..Len(h) |-> r[h[j]]])

Comments(n) == [k \in 1..n |-> CommentLine(k)]

\* pre comment lines, the header, the records, post comment lines
MafFile(pre, h, rs, post) ==
    Comments(pre) \o << TableLine(h) >> \o
    [i \in 1..Len(rs) |-> DataLine(h, rs[i])] \o Comments(post)

\* The records tried in tables of several records
FewRecordsOf(h) ==
    {r \in RecordsOf(h) :
        \A c \in Range(h) : r[c] \in {"", "-", "AT", "GC", "TP53", "ONP"}}

\* Every record alone, with comment lines before and after the table; up to
\* MaxRows of the few records together.
MafFilesOf(h) ==
    {MafFile(pre, h, rs, post) :
        pre \in 0..MaxComments, post \in 0..1, rs \in SeqsUpTo(RecordsOf(h), 1)}
    \cup {MafFile(pre, h, rs, 0) :
            pre \in 0..1, rs \in SeqsUpTo(FewRecordsOf(h), MaxRows)}

MafFiles ==
    {Comments(n) : n \in 0..(MaxComments + 1)} \cup UNION {MafFilesOf(h) : h \in Headers}

----------------------------------------------------------------------------
(* Idle values of the parts a specification does not run *)

LiftIdle ==
    /\ indir = {} /\ lfiles = << >> /\ outdir = << >> /\ unmap = {}
    /\ windir = << >> /\ lpc = "idle"

NoCounts == [parse_error |-> 0, total |-> 0, wrong_build |-> 0,
             no_chrom_in_fasta |-> 0, fasta_fetch_error |-> 0,
             ref_mismatch |-> 0, snv_ref_mismatch |-> 0,
             indel_ref_mismatch |-> 0, ref_ok |-> 0]

ValidateIdle ==
    /\ disk = << >> /\ vqueue = << >> /\ vpc = "idle" /\ vfile = << >>
    /\ header = << >> /\ rows = << >> /\ ri = 0 /\ total = 0
    /\ counts = NoCounts /\ bad_records = << >> /\ reports = << >>
    /\ written = << >> /\ agg = "none" /\ overall = <<0, 1>>

NormIdle ==
    /\ maf = << >> /\ lines = << >> /\ df = NoFrame /\ err = "none" /\ passes = 0

----------------------------------------------------------------------------
(* process_output_maf applied, and applied again, to one file *)

Init ==
    /\ maf \in MafFiles
    /\ lines = << >>
    /\ df = NoFrame
    /\ err = "none"
    /\ passes = 0
    /\ LiftIdle
    /\ ValidateIdle

Next == ProcessOutputMaf

Spec == Init /\ [][Next]_vars

----------------------------------------------------------------------------
(* liftover.py: main and run_crossmap *)

LiftNames == {"a.txt", "b.txt", "c.txt"}

\* What CrossMap can leave in data/output for one input file
CrossMapOutputs ==
    {Comments(n) : n \in 0..1} \cup
    {MafFile(1, << "Hugo_Symbol", "Reference_Allele" >>, rs, 0) :
        rs \in SeqsUpTo(RecordsOf(<< "Hugo_Symbol", "Reference_Allele" >>), 1)}

\* f -> v added to (or replaced in) the directory d
Put(d, f, v) == [n \in DOMAIN d \cup {f} |-> IF n = f THEN v ELSE d[n]]

\* main, lines 169-174: files = list(INPUT.glob("*.txt")), in the order the
\* directory listing gives
LiftMainStart ==
    /\ lpc = "start"
    /\ IF indir = {}
       THEN lpc' = "no_input" /\ lfiles' = << >>
       ELSE /\ lpc' = "loop"
            /\ \E q \in [1..Cardinality(indir) -> indir] :
                  /\ \A i, j \in DOMAIN q : i # j => q[i] # q[j]
                  /\ lfiles' = q
    /\ UNCHANGED <<indir, outdir, unmap, windir>>
    /\ UNCHANGED <<lvars, vvars>>

\* One iteration of `for f in files: run_crossmap(f)` (lines 120-162).
\* CrossMap runs with check=True; its output is post-processed in place, the
\* .unmap file (if CrossMap wrote one) is moved, and the table is copied to
\* WIN_OUTPUT.  Nothing in run_crossmap or main catches an exception.
RunCrossmap ==
    /\ lpc = "loop"
    /\ lfiles # << >>
    /\ lfiles' = Tail(lfiles)
    /\ \/ \* CrossMap exits non-zero: subprocess.CalledProcessError
          /\ err' = "CalledProcessError"
          /\ lpc' = "raised"
          /\ UNCHANGED <<outdir, unmap, windir, df>>
       \/ \E out \in CrossMapOutputs, hasUnmap \in BOOLEAN :
          \E r \in process_output_maf(out) :
             /\ err' = r.err
             /\ outdir' = Put(outdir, Head(lfiles), r.file)
             /\ IF r.err # "none"
                THEN lpc' = "raised" /\ UNCHANGED <<unmap, windir, df>>
                ELSE /\ lpc' = "loop"
                     /\ df' = r.df
                     /\ unmap' = IF hasUnmap THEN unmap \cup {Head(lfiles)} ELSE unmap
                     /\ windir' = Put(windir, Head(lfiles), r.file)
    /\ UNCHANGED <<indir, maf, lines, passes>>
    /\ UNCHANGED vvars

\* The for-loop of main is over
LiftMainReturn ==
    /\ lpc = "loop"
    /\ lfiles = << >>
    /\ lpc' = "done"
    /\ UNCHANGED <<indir, lfiles, outdir, unmap, windir>>
    /\ UNCHANGED <<lvars, vvars>>

NextLift == LiftMainStart \/ RunCrossmap \/ LiftMainReturn

----------------------------------------------------------------------------
(* validate.py: strings as sequences of one-character strings *)

None == << "<None>" >>

WS == {" "}

Digits == << "0", "1", "2", "3", "4", "5", "6", "7", "8", "9" >>

IsDigit(c) == c \in Range(Digits)

DigitVal(c) == IndexOf(Digits, c) - 1

\* str.strip()
Strip(s) ==
    LET keep == {i \in 1..Len(s) : s[i] \notin WS}
    IN  IF keep = {} THEN << >>
        ELSE SubSeq(s, CHOOSE i \in keep : \A j \in keep : i <= j,
                       CHOOSE i \in keep : \A j \in keep : i >= j)

UpperChar(c) ==
    CASE c = "a" -> "A" [] c = "c" -> "C" [] c = "g" -> "G" [] c = "t" -> "T"
      [] OTHER -> c

\* str.upper()
Upper(s) == [i \in 1..Len(s) |-> UpperChar(s[i])]

\* str.startswith(p)
StartsWith(s, p) == Len(s) >= Len(p) /\ SubSeq(s, 1, Len(p)) = p

\* p in s
Contains(s, p) ==
    \E i \in 0..(Len(s) - Len(p)) : SubSeq(s, i + 1, i + Len(p)) = p

RECURSIVE DecimalValue(_)
DecimalValue(ds) ==
    IF ds = << >> THEN 0
    ELSE 10 * DecimalValue(SubSeq(ds, 1, Len(ds) - 1)) + DigitVal(ds[Len(ds)])

\* int(x) for a str x: surrounding whitespace is ignored, one sign is
\* allowed, then decimal digits; anything else raises ValueError, and None
\* raises TypeError.
IntBody(x) ==
    LET t == Strip(x)
    IN  IF t # << >> /\ t[1] \in {"+", "-"} THEN Tail(t) ELSE t

CanInt(x) ==
    /\ x # None
    /\ IntBody(x) # << >>
    /\ \A i \in 1..Len(IntBody(x)) : IsDigit(IntBody(x)[i])

Int_(x) ==
    IF Strip(x)[1] = "-" THEN 0 - DecimalValue(IntBody(x))
    ELSE DecimalValue(IntBody(x))

S_chr == << "c", "h", "r" >>

S_GRCh38 == << "G", "R", "C", "h", "3", "8" >>

REQ_COLS == << "Chromosome", "Start_Position", "End_Position",
               "Reference_Allele", "Tumor_Seq_Allele2", "NCBI_Build" >>

\* The reference genome, opened once with sequence_always_upper=True:
\* sequence name -> bases.  chr1 has A at position 100 and T at 101; "2" has
\* no chr-prefixed twin; "3" and "chr3" both exist and differ.
SeqLen == 101

FastaNames == { << "c", "h", "r", "1" >>, << "2" >>, << "3" >>,
                << "c", "h", "r", "3" >> }

FASTA_STORE ==
    [n \in FastaNames |->
        CASE n = << "c", "h", "r", "1" >> ->
                [i \in 1..SeqLen |-> IF i = 100 THEN "A"
                                     ELSE IF i = 101 THEN "T" ELSE "C"]
          [] n = << "2" >> -> << "C", "G" >>
          [] n = << "3" >> -> << "A", "A" >>
          [] OTHER -> << "C", "C" >>]

\* seqname in fasta_obj
InFasta(seqname) == seqname \in DOMAIN FASTA_STORE

\* Lines 97-103: the name looked up in the FASTA for a chromosome.
ResolveToggledFirst(chrom) ==
    LET toggled == IF StartsWith(chrom, S_chr)
                   THEN SubSeq(chrom, 4, Len(chrom))
                   ELSE S_chr \o chrom
    IN  IF InFasta(toggled) THEN toggled ELSE chrom

ResolveSeqname(chrom) ==
    IF ~InFasta(chrom)
    THEN IF StartsWith(chrom, S_chr)
         THEN SubSeq(chrom, 4, Len(chrom))
         ELSE S_chr \o chrom
    ELSE chrom

\* The window start .. start+n-1 lies inside the sequence and is not empty.
InRange(seqname, start, n) ==
    n >= 1 /\ start >= 1 /\ start + n - 1 <= Len(FASTA_STORE[seqname])

\* fasta_obj[seqname][start - 1 : start - 1 + n].seq.  Inside the sequence
\* it is the n bases from the 1-based position start.  For a window that is
\* empty or reaches outside, what pyfaidx does is the library's business (it
\* may raise, cut the window short, or wrap a negative index to the end), so
\* every such outcome is allowed.
Fetch(seqname, start, n) ==
    LET s == FASTA_STORE[seqname]
        lo == Max(start, 1)
        hi == Min(start + n - 1, Len(s))
        cut == IF lo <= hi THEN SubSeq(s, lo, hi) ELSE << >>
        wlo == Len(s) + start
        wrapped == IF start < 1 /\ wlo >= 1
                   THEN SubSeq(s, wlo, Min(Len(s), wlo + n - 1)) ELSE << >>
    IN  IF InRange(seqname, start, n)
        THEN {[raised |-> FALSE, seq |-> SubSeq(s, start, start + n - 1)]}
        ELSE {[raised |-> TRUE, seq |-> << >>],
              [raised |-> FALSE, seq |-> cut],
              [raised |-> FALSE, seq |-> wrapped]}

\* counts[key] += 1
Inc(c, key) == [c EXCEPT ![key] = @ + 1]

\* Lines 82-86 raise nothing on this row.
Parses(row) ==
    /\ row["Chromosome"] # None
    /\ CanInt(row["Start_Position"])
    /\ row["Reference_Allele"] # None
    /\ row["Tumor_Seq_Allele2"] # None
    /\ RowGet(row, "ncbi_build", << >>) # None

\* build = row.get("ncbi_build", "").strip()
BuildOf(row) == Strip(RowGet(row, "ncbi_build", << >>))

\* if build and "GRCh38" not in build
WrongBuild(build) == build # << >> /\ ~Contains(build, S_GRCh38)

\* if len(ref) == 1 and len(alt) == 1
IsSnvRefOnly(ref, alt) == Len(ref) = 1

IsSnv(ref, alt) == Len(ref) = 1 /\ Len(alt) = 1

\* One iteration of the for-loop of validate_file (lines 79-146) on `row`,
\* from the counters c and the list b, with the fetch ending as f says:
\* the new counters and list.
RowStep(c, b, row, f) ==
    IF ~Parses(row)
    THEN [counts |-> Inc(c, "parse_error"), bad |-> Append(b, "parse_error")]
    ELSE
    LET chrom == Strip(row["Chromosome"])
        ref == Strip(row["Reference_Allele"])
        alt == Strip(row["Tumor_Seq_Allele2"])
        c1 == Inc(c, "total")
        c2 == IF WrongBuild(BuildOf(row)) THEN Inc(c1, "wrong_build") ELSE c1
        seqname == ResolveSeqname(chrom)
    IN  IF ~InFasta(seqname)
        THEN [counts |-> Inc(c2, "no_chrom_in_fasta"),
              bad |-> Append(b, "chrom_missing_in_fasta")]
        ELSE IF f.raised
        THEN [counts |-> Inc(c2, "fasta_fetch_error"),
              bad |-> Append(b, "fasta_fetch_error")]
        ELSE IF Upper(f.seq) # Upper(ref)
        THEN [counts |-> Inc(Inc(c2, "ref_mismatch"),
                             IF IsSnv(ref, alt) THEN "snv_ref_mismatch"
                             ELSE "indel_ref_mismatch"),
              bad |-> Append(b, "ref_mismatch")]
        ELSE [counts |-> Inc(c2, "ref_ok"), bad |-> b]

\* The fetches the iteration on `row` can see (one dummy when it makes none).
FetchesOf(row) ==
    IF Parses(row) /\ InFasta(ResolveSeqname(Strip(row["Chromosome"])))
    THEN Fetch(ResolveSeqname(Strip(row["Chromosome"])),
               Int_(row["Start_Position"]),
               Len(Strip(row["Reference_Allele"])))
    ELSE {[raised |-> FALSE, seq |-> << >>]}

RECURSIVE GCD(_, _)
GCD(a, b) == IF b = 0 THEN a ELSE GCD(b, a % b)

\* The float n / d, kept as the fraction in lowest terms (d > 0).
Rate(n, d) == << n \div GCD(n, d), d \div GCD(n, d) >>

RateLess(p, q) == p[1] * q[2] < q[1] * p[2]

SampleCap == 50

\* A file of data/output as validate.py reads it: leading "#" lines, then
\* (if hasHeader) the header line and the data lines.  A data line is the dict
\* csv.DictReader makes of it: header column -> cell, None for a cell the
\* line is too short to hold.
VFile(k, hh, h, rs) == [comments |-> k, hasHeader |-> hh, header |-> h, rows |-> rs]

\* read_header_and_rows(file_path): the header is the first line not
\* starting with "#"; when every line starts with "#", start_idx stays 0 and
\* the first comment line is taken for the header; with no line at all
\* reader.fieldnames is None.
read_header_and_rows(f) ==
    IF f.hasHeader THEN [header |-> f.header, rows |-> f.rows]
    ELSE IF f.comments > 0
    THEN [header |-> << "#c1" >>,
          rows |-> [i \in 1..(f.comments - 1) |-> [c \in {"#c1"} |-> << "#" >>]]]
    ELSE [header |-> None, rows |-> << >>]

\* check_columns(header)
check_columns(h) == SelectSeq(REQ_COLS, LAMBDA c : c \notin Range(h))

\* The report validate_file returns at lines 70-74.
ErrorReport(f, missing) ==
    [file |-> f, error |-> "missing_columns", missing_columns |-> missing]

\* The report validate_file returns at lines 148-162.
Result(f, c, b) ==
    [file |-> f,
     total_variants |-> c["total"],
     ref_ok |-> c["ref_ok"],
     ref_mismatch |-> c["ref_mismatch"],
     snv_ref_mismatch |-> c["snv_ref_mismatch"],
     indel_ref_mismatch |-> c["indel_ref_mismatch"],
     wrong_build |-> c["wrong_build"],
     no_chrom_in_fasta |-> c["no_chrom_in_fasta"],
     mismatch_rate |-> Rate(c["ref_mismatch"], Max(c["total"], 1)),
     bad_records_sample |-> SubSeq(b, 1, Min(Len(b), SampleCap))]

\* File names are sequences of character codes; sorted() orders them as
\* strings.
LexLess(a, b) ==
    \E k \in 1..(Len(b)) :
        /\ \A j \in 1..(k - 1) : j <= Len(a) /\ a[j] = b[j]
        /\ (k > Len(a) \/ (k <= Len(a) /\ a[k] < b[k]))
        /\ k - 1 <= Len(a)

\* sorted(DATA_OUT.glob("*.txt"))
sorted(S) ==
    CHOOSE q \in [1..Cardinality(S) -> S] :
        \A i, j \in 1..Cardinality(S) : i < j => LexLess(q[i], q[j])

\* r.get("mismatch_rate", 0)
RateOf(r) == IF "mismatch_rate" \in DOMAIN r THEN r["mismatch_rate"] ELSE <<0, 1>>

RECURSIVE MaxFrom(_, _)
MaxFrom(best, rs) ==
    IF rs = << >> THEN best
    ELSE MaxFrom(IF RateLess(best, RateOf(Head(rs))) THEN RateOf(Head(rs)) ELSE best,
                 Tail(rs))

\* The last report's rate instead of the largest.
OverallMismatchLast(rs) ==
    IF rs = << >> THEN <<0, 1>> ELSE RateOf(rs[Len(rs)])

\* max((r.get("mismatch_rate", 0) for r in reports), default=0)
OverallMismatch(rs) ==
    IF rs = << >> THEN <<0, 1>> ELSE MaxFrom(RateOf(Head(rs)), Tail(rs))

\* main, lines 166-169: the list of files to validate
ValidateMainStart ==
    /\ vpc = "start"
    /\ vqueue' = sorted(DOMAIN disk)
    /\ reports' = << >>
    /\ vpc' = "main"
    /\ UNCHANGED <<disk, vfile, header, rows, ri, total, counts, bad_records,
                   written, agg, overall>>
    /\ UNCHANGED <<lvars, bvars>>

\* main calls validate_file on the next file: lines 67-78.  A header that
\* lacks required columns ends the call with the error report, which main
\* appends and writes; a file with no line makes check_columns raise
\* TypeError (`c not in None`), which nothing catches.
ValidateFileCall ==
    /\ vpc = "main"
    /\ vqueue # << >>
    /\ LET f == Head(vqueue)
           hr == read_header_and_rows(disk[f])
       IN  /\ vfile' = f
           /\ vqueue' = Tail(vqueue)
           /\ header' = hr.header
           /\ rows' = hr.rows
           /\ ri' = 0
           /\ total' = 0
           /\ counts' = NoCounts
           /\ bad_records' = << >>
           /\ IF hr.header = None
              THEN vpc' = "raised" /\ UNCHANGED <<reports, written>>
              ELSE IF check_columns(hr.header) # << >>
              THEN /\ vpc' = "main"
                   /\ reports' = Append(reports, ErrorReport(f, check_columns(hr.header)))
                   /\ written' = Append(written, f)
              ELSE vpc' = "rows" /\ UNCHANGED <<reports, written>>
    /\ UNCHANGED <<disk, agg, overall>>
    /\ UNCHANGED <<lvars, bvars>>

\* One iteration of `for row in rows` (lines 79-146)
ValidateRow ==
    /\ vpc = "rows"
    /\ ri < Len(rows)
    /\ ri' = ri + 1
    /\ total' = total + 1
    /\ \E f \in FetchesOf(rows[ri + 1]) :
          /\ counts' = RowStep(counts, bad_records, rows[ri + 1], f).counts
          /\ bad_records' = RowStep(counts, bad_records, rows[ri + 1], f).bad
    /\ UNCHANGED <<disk, vqueue, vpc, vfile, header, rows, reports, written,
                   agg, overall>>
    /\ UNCHANGED <<lvars, bvars>>

\* The loop is over: validate_file returns its result (lines 148-162) and
\* main appends and writes it (lines 172-174).
ValidateFileReturn ==
    /\ vpc = "rows"
    /\ ri = Len(rows)
    /\ reports' = Append(reports, Result(vfile, counts, bad_records))
    /\ written' = Append(written, vfile)
    /\ vpc' = "main"
    /\ UNCHANGED <<disk, vqueue, vfile, header, rows, ri, total, counts,
                   bad_records, agg, overall>>
    /\ UNCHANGED <<lvars, bvars>>

\* main, lines 176-186 (FAIL_ON_HIGH_MISMATCH is False: no exit)
ValidateMainSummary ==
    /\ vpc = "main"
    /\ vqueue = << >>
    /\ agg' = [files_validated |-> Len(reports), reports |-> reports]
    /\ overall' = OverallMismatch(reports)
    /\ vpc' = "done"
    /\ UNCHANGED <<disk, vqueue, vfile, header, rows, ri, total, counts,
                   bad_records, reports, written>>
    /\ UNCHANGED <<lvars, bvars>>

NextV ==
    \/ ValidateMainStart
    \/ ValidateFileCall
    \/ ValidateRow
    \/ ValidateFileReturn
    \/ ValidateMainSummary

----------------------------------------------------------------------------
(* Input tables of validate_file *)

S_1 == << "1" >>
S_100 == << "1", "0", "0" >>
S_chr1 == << "c", "h", "r", "1" >>
S_A == << "A" >>
S_C == << "C" >>
S_T == << "T" >>
S_dash == << "-" >>
S_GRCh37 == << "G", "R", "C", "h", "3", "7" >>

Row(ch, st, ref, alt, nb) ==
    [Chromosome |-> ch, Start_Position |-> st, End_Position |-> st,
     Reference_Allele |-> ref, Tumor_Seq_Allele2 |-> alt, NCBI_Build |-> nb]

\* Every way of resolving the chromosome, at position 1
ResolutionRows ==
    {Row(ch, S_1, ref, S_T, S_GRCh38) :
        ch \in {S_1, S_chr1, << "c", "h", "r", "2" >>, << "3" >>,
                << "c", "h", "r", "3" >>, << "X" >>, << " ", "1" >>},
        ref \in {S_A, S_C}}
    \cup {Row(S_1, S_100, S_A, S_T, S_GRCh38)}

\* Start positions that parse, that do not, inside and outside chr1
StartRows ==
    {Row(S_chr1, st, S_A, S_T, S_GRCh38) :
        st \in {S_100, << "1", "0", "1" >>, << "1", "0", "2" >>, << "0" >>,
                << "x" >>, S_dash, << " ", "1", "0", "0" >>, << >>, None}}
    \cup {Row(S_chr1, st, << "A", "T" >>, S_dash, S_GRCh38) :
            st \in {S_100, << "1", "0", "1" >>}}

\* Alleles at chr1:100 (A, then T)
AlleleRows ==
    {Row(S_chr1, S_100, p[1], p[2], S_GRCh38) :
        p \in { << << "a" >>, S_T >>, << S_C, S_T >>, << S_C, S_dash >>,
                << S_C, << "T", "T" >> >>, << << "C", "A" >>, S_T >>,
                << << "a", "t" >>, S_dash >>, << << " ", "A" >>, S_T >>,
                << << "C", " " >>, << " ", "T" >> >>, << << >>, S_T >>,
                << None, S_T >>, << S_A, None >>, << S_dash, S_T >>,
                << S_C, << >> >> }}

\* Build labels in the required NCBI_Build column
BuildRows ==
    {Row(S_chr1, S_100, ref, S_T, nb) :
        ref \in {S_A, S_C}, nb \in {S_GRCh37, << >>}}

Rows1 == ResolutionRows \cup StartRows \cup AlleleRows \cup BuildRows

\* Tables that (also) carry a lower-case ncbi_build column
H2 == Append(REQ_COLS, "ncbi_build")

Rows2 ==
    {[c \in Range(H2) |->
        IF c = "ncbi_build" THEN lb ELSE Row(S_chr1, S_100, ref, S_T, S_GRCh37)[c]] :
        ref \in {S_A, S_C},
        lb \in {S_GRCh37, S_GRCh38, << >>, None, << " " >>}}

\* Headers that lack required columns
MissingHeaders ==
    { << "Chromosome", "Start_Position", "End_Position", "Reference_Allele",
         "Tumor_Seq_Allele2" >>,
      << "Hugo_Symbol", "NCBI_Build" >> }

\* The records tried in tables of several records: one of each outcome
FewRows ==
    { Row(S_chr1, S_100, S_A, S_T, S_GRCh38),
      Row(S_chr1, S_100, S_C, S_T, S_GRCh38),
      Row(S_chr1, S_100, S_C, << "T", "T" >>, S_GRCh38),
      Row(S_chr1, S_dash, S_A, S_T, S_GRCh38),
      Row(<< "X" >>, S_1, S_A, S_T, S_GRCh38),
      Row(S_chr1, << "0" >>, S_A, S_T, S_GRCh38),
      Row(S_chr1, S_100, S_A, S_T, S_GRCh37) }

FewRows2 == {r \in Rows2 : r["ncbi_build"] \in {S_GRCh37, S_GRCh38, << >>}}

VFiles ==
    {VFile(0, TRUE, REQ_COLS, rs) : rs \in SeqsUpTo(Rows1, 1)}
    \cup {VFile(0, TRUE, REQ_COLS, rs) : rs \in SeqsUpTo(FewRows, MaxRows)}
    \cup {VFile(k, TRUE, H2, rs) : k \in 0..MaxComments, rs \in SeqsUpTo(Rows2, 1)}
    \cup {VFile(0, TRUE, H2, rs) : rs \in SeqsUpTo(FewRows2, MaxRows)}
    \cup {VFile(k, TRUE, h, << >>) : k \in 0..MaxComments, h \in MissingHeaders}
    \cup {VFile(k, FALSE, << >>, << >>) : k \in 0..(MaxComments + 1)}

F_a == << 97 >>
F_ab == << 97, 98 >>
F_b == << 98 >>

\* validate.py run on a directory holding one file
InitV ==
    /\ NormIdle
    /\ LiftIdle
    /\ \E f \in VFiles : disk = [n \in {F_a} |-> f]
    /\ vpc = "start"
    /\ vqueue = << >> /\ vfile = << >> /\ header = << >> /\ rows = << >>
    /\ ri = 0 /\ total = 0 /\ counts = NoCounts /\ bad_records = << >>
    /\ reports = << >> /\ written = << >> /\ agg = "none" /\ overall = <<0, 1>>

SpecV == InitV /\ [][NextV]_vars

\* validate.py run on a directory of up to three files
OkRow == Row(S_chr1, S_100, S_A, S_T, S_GRCh38)

MismatchRow == Row(S_chr1, S_100, S_C, S_T, S_GRCh38)

UnparsedRow == Row(S_chr1, S_dash, S_A, S_T, S_GRCh38)

\* n records, the first m of them with a wrong reference allele
TableOf(n, m) ==
    VFile(1, TRUE, REQ_COLS, [i \in 1..n |-> IF i <= m THEN MismatchRow ELSE OkRow])

BatchFiles ==
    { TableOf(1, 0), TableOf(50, 1), TableOf(100, 1), TableOf(2, 1),
      VFile(1, TRUE, REQ_COLS, << UnparsedRow, MismatchRow >>),
      VFile(0, TRUE, << "Hugo_Symbol", "NCBI_Build" >>, << >>),
      VFile(2, FALSE, << >>, << >>),
      VFile(0, FALSE, << >>, << >>) }

InitMain ==
    /\ NormIdle
    /\ LiftIdle
    /\ \E S \in SUBSET {F_a, F_ab, F_b} : disk \in [S -> BatchFiles]
    /\ vpc = "start"
    /\ vqueue = << >> /\ vfile = << >> /\ header = << >> /\ rows = << >>
    /\ ri = 0 /\ total = 0 /\ counts = NoCounts /\ bad_records = << >>
    /\ reports = << >> /\ written = << >> /\ agg = "none" /\ overall = <<0, 1>>

SpecMain == InitMain /\ [][NextV]_vars

\* liftover.py run on a directory of up to three input files
InitLift ==
    /\ NormIdle
    /\ ValidateIdle
    /\ indir \in SUBSET LiftNames
    /\ lfiles = << >> /\ outdir = << >> /\ unmap = {} /\ windir = << >>
    /\ lpc = "start"

SpecLift == InitLift /\ [][NextLift]_vars

----------------------------------------------------------------------------
(* Claims about process_output_maf (specification Spec) *)

\* The records the last call read, as read_csv hands them to classify.
InputRows == IF table_lines(lines) = << >> THEN << >>
             ELSE read_csv(table_lines(lines)).rows

\* The last call returned a table made from at least one record.
Returned == passes >= 1 /\ err = "none" /\ Len(InputRows) >= 1

\* C1: every record of the table process_output_maf returns and writes has
\* exactly the 23 FINAL_COLUMNS in that order, no empty-string value, and a
\* Variant_Type equal to the classification of that output record's own
\* Reference_Allele and Tumor_Seq_Allele2.
C1_OutputRecordsAreConsistent ==
    Returned =>
        /\ df.columns = FINAL_COLUMNS
        /\ table_lines(maf) = to_csv(df)
        /\ \A i \in 1..Len(df.rows) :
              /\ DOMAIN df.rows[i] = Range(FINAL_COLUMNS)
              /\ \A c \in DOMAIN df.rows[i] : df.rows[i][c] # ""
              /\ df.rows[i]["Variant_Type"] =
                    Classify(df.rows[i]["Reference_Allele"],
                             df.rows[i]["Tumor_Seq_Allele2"])

\* C2: normalization is idempotent: a call of process_output_maf on the file
\* a successful call left behind returns the same table and leaves the same
\* file.
C2_NormalizationIsIdempotent ==
    [][(Returned /\ passes' = passes + 1 /\ err' = "none")
          => (df' = df /\ maf' = maf)]_vars

\* C3: process_output_maf raises the empty-input error exactly when the file
\* holds zero data records (no line, only comment lines, or only a header).
C3_EmptyInputErrorIffNoRecords ==
    passes >= 1 => (err = "RuntimeError" <=> Len(InputRows) = 0)

\* C5: classify never fails and gives every record the tag of the first rule
\* that matches the alleles it read: both "-" -> "-"; alt "-" -> DEL;
\* ref "-" -> INS; longer ref -> DEL; shorter ref -> INS; both of length 1
\* -> SNP; equal length above 1 -> ONP; otherwise (both empty) -> "-".
C5_ClassifyFollowsTheRuleOrder ==
    Returned =>
        /\ Len(df.rows) = Len(InputRows)
        /\ \A i \in 1..Len(InputRows) :
              LET ref == RowGet(InputRows[i], "Reference_Allele", "")
                  alt == RowGet(InputRows[i], "Tumor_Seq_Allele2", "")
                  vt == df.rows[i]["Variant_Type"]
                  dash == ref = "-" \/ alt = "-"
              IN  /\ vt \in {"SNP", "ONP", "INS", "DEL", "-"}
                  /\ (ref = "-" /\ alt = "-") => vt = "-"
                  /\ (alt = "-" /\ ref # "-") => vt = "DEL"
                  /\ (ref = "-" /\ alt # "-") => vt = "INS"
                  /\ (~dash /\ Len(ref) > Len(alt)) => vt = "DEL"
                  /\ (~dash /\ Len(ref) < Len(alt)) => vt = "INS"
                  /\ (~dash /\ Len(ref) = 1 /\ Len(alt) = 1) => vt = "SNP"
                  /\ (~dash /\ Len(ref) = Len(alt) /\ Len(ref) > 1) => vt = "ONP"
                  /\ (ref = "" /\ alt = "") => vt = "-"

\* A call classified records matching each of the rules.
C5_Witness ==
    /\ Returned
    /\ Len(InputRows) = 2
    /\ "Reference_Allele" \in DOMAIN InputRows[1]
    /\ "Tumor_Seq_Allele2" \in DOMAIN InputRows[1]
    /\ InputRows[1]["Reference_Allele"] = "AT"
    /\ InputRows[1]["Tumor_Seq_Allele2"] = "GC"
    /\ df.rows[1]["Variant_Type"] = "ONP"
    /\ InputRows[2]["Reference_Allele"] = "-"
    /\ InputRows[2]["Tumor_Seq_Allele2"] = "AT"
    /\ df.rows[2]["Variant_Type"] = "INS"

----------------------------------------------------------------------------
(* Claims about validate_file (specification SpecV) *)

\* The loop of validate_file takes a step, consuming rows[ri + 1].
RowTaken == vpc = "rows" /\ ri' = ri + 1

\* How much the loop step changes a counter.
Delta(key) == counts'[key] - counts[key]

\* The chromosome name with its chr prefix toggled.
Toggled(chrom) ==
    IF Len(chrom) >= 3 /\ chrom[1] = "c" /\ chrom[2] = "h" /\ chrom[3] = "r"
    THEN [i \in 1..(Len(chrom) - 3) |-> chrom[i + 3]]
    ELSE << "c", "h", "r" >> \o chrom

\* The same letter, whatever the case.
SameBase(x, y) ==
    \/ x = y
    \/ <<x, y>> \in { <<"a", "A">>, <<"A", "a">>, <<"c", "C">>, <<"C", "c">>,
                      <<"g", "G">>, <<"G", "g">>, <<"t", "T">>, <<"T", "t">> }

\* The Len(ref) bases of sequence `name` from the 1-based position `start`
\* exist and equal ref, case ignored.
Inside(name, start, ref) ==
    Len(ref) >= 1 /\ start >= 1 /\ start + Len(ref) - 1 <= Len(FASTA_STORE[name])

BasesEqual(name, start, ref) ==
    \A i \in 1..Len(ref) : SameBase(FASTA_STORE[name][start + i - 1], ref[i])

\* C4: for a record that parses, the sequence is the one named exactly by
\* Chromosome if the store has it, else the one named with the chr prefix
\* toggled; when that sequence is in the store and holds the len(ref) bases
\* from Start_Position, the record counts as ref_ok if they equal the
\* reference allele (case ignored) and as ref_mismatch if not;
\* no_chrom_in_fasta is counted exactly when both names are absent, and then
\* neither ref_ok nor ref_mismatch moves.
C4_ResolveExactThenToggled ==
    [][(RowTaken /\ Parses(rows[ri + 1])) =>
        LET row == rows[ri + 1]
            chrom == Strip(row["Chromosome"])
            ref == Strip(row["Reference_Allele"])
            start == Int_(row["Start_Position"])
            exact == chrom \in FastaNames
            other == Toggled(chrom) \in FastaNames
            name == IF exact THEN chrom ELSE Toggled(chrom)
        IN  /\ Delta("no_chrom_in_fasta") = (IF ~exact /\ ~other THEN 1 ELSE 0)
            /\ (~exact /\ ~other) =>
                  (Delta("ref_ok") = 0 /\ Delta("ref_mismatch") = 0)
            /\ ((exact \/ other) /\ Inside(name, start, ref)) =>
                  IF BasesEqual(name, start, ref)
                  THEN Delta("ref_ok") = 1 /\ Delta("ref_mismatch") = 0
                  ELSE Delta("ref_ok") = 0 /\ Delta("ref_mismatch") = 1
       ]_vars

\* The record {Chromosome "1", Start_Position 100, Reference_Allele "A"} was
\* resolved to chr1 and counted as ref_ok.
C4_Witness ==
    /\ vpc = "rows"
    /\ ri = 1
    /\ rows[1]["Chromosome"] = << "1" >>
    /\ rows[1]["Start_Position"] = << "1", "0", "0" >>
    /\ rows[1]["Reference_Allele"] = << "A" >>
    /\ FASTA_STORE[<< "c", "h", "r", "1" >>][100] = "A"
    /\ << "1" >> \notin DOMAIN FASTA_STORE
    /\ counts["ref_ok"] = 1

\* C6: a record whose fetched bases differ from its reference allele adds one
\* to ref_mismatch and to exactly one of snv_ref_mismatch (both alleles one
\* character long) and indel_ref_mismatch (otherwise); so the two always add
\* up to ref_mismatch, in the counters and in every report.
C6_MismatchIsSnvOrIndel ==
    /\ [](counts["snv_ref_mismatch"] + counts["indel_ref_mismatch"]
            = counts["ref_mismatch"])
    /\ [](\A i \in 1..Len(reports) :
            "ref_mismatch" \in DOMAIN reports[i] =>
                reports[i]["snv_ref_mismatch"] + reports[i]["indel_ref_mismatch"]
                    = reports[i]["ref_mismatch"])
    /\ [][RowTaken =>
            LET row == rows[ri + 1]
                ref == Strip(row["Reference_Allele"])
                alt == Strip(row["Tumor_Seq_Allele2"])
                chrom == Strip(row["Chromosome"])
                name == IF chrom \in FastaNames THEN chrom ELSE Toggled(chrom)
            IN  /\ Delta("ref_mismatch") \in {0, 1}
                /\ Delta("snv_ref_mismatch") \in {0, 1}
                /\ Delta("indel_ref_mismatch") \in {0, 1}
                /\ Delta("snv_ref_mismatch") + Delta("indel_ref_mismatch")
                      = Delta("ref_mismatch")
                /\ Delta("ref_mismatch") = 1 =>
                      (Delta("snv_ref_mismatch") = 1 <=> (Len(ref) = 1 /\ Len(alt) = 1))
                /\ (/\ Parses(row)
                    /\ name \in FastaNames
                    /\ Inside(name, Int_(row["Start_Position"]), ref)
                    /\ ~BasesEqual(name, Int_(row["Start_Position"]), ref))
                      => Delta("ref_mismatch") = 1
         ]_vars

\* A file gave one single-base and one multi-base mismatch.
C6_Witness ==
    /\ vpc = "rows"
    /\ ri = 2
    /\ counts["ref_mismatch"] = 2
    /\ counts["snv_ref_mismatch"] = 1
    /\ counts["indel_ref_mismatch"] = 1
    /\ Len(Strip(rows[2]["Tumor_Seq_Allele2"])) = 2

\* The data records of the file a report is about.
RecordsIn(r) == read_header_and_rows(disk[r["file"]]).rows

\* C7: total_variants of a report is the number of data records of its file,
\* whatever their outcome, and mismatch_rate is ref_mismatch over
\* max(that number, 1).
C7_TotalCountsEveryRecord ==
    \A i \in 1..Len(reports) :
        "total_variants" \in DOMAIN reports[i] =>
            /\ reports[i]["total_variants"] = Len(RecordsIn(reports[i]))
            /\ reports[i]["mismatch_rate"] =
                  Rate(reports[i]["ref_mismatch"], Max(Len(RecordsIn(reports[i])), 1))

\* The build label of a record names another build than GRCh38.
OtherBuild(row) ==
    /\ row["NCBI_Build"] # None
    /\ row["NCBI_Build"] # << >>
    /\ ~Contains(row["NCBI_Build"], << "G", "R", "C", "h", "3", "8" >>)

\* C10: wrong_build of a report is the number of parsed records of its file
\* whose NCBI_Build is not empty and does not contain "GRCh38".
C10_WrongBuildCountsTheBuildColumn ==
    \A i \in 1..Len(reports) :
        "wrong_build" \in DOMAIN reports[i] =>
            reports[i]["wrong_build"] =
                Cardinality({j \in 1..Len(RecordsIn(reports[i])) :
                                /\ Parses(RecordsIn(reports[i])[j])
                                /\ OtherBuild(RecordsIn(reports[i])[j])})

----------------------------------------------------------------------------
(* Claims about the two main functions (SpecMain, SpecLift) *)

\* C8: a file-level error stops the work on that file only: an empty input
\* does not stop liftover.py with files of its batch still waiting, nor does
\* an unusable table stop validate.py, which has a report for every file it
\* has gone through; and every record the loop of validate_file has
\* consumed is counted under one outcome, whatever went wrong with it.
C8_FileErrorStopsThatFileOnly ==
    /\ (lpc = "raised" /\ err = "RuntimeError") => lfiles = << >>
    /\ vpc = "raised" => vqueue = << >>
    /\ vpc = "rows" =>
          counts["parse_error"] + counts["no_chrom_in_fasta"]
            + counts["fasta_fetch_error"] + counts["ref_ok"]
            + counts["ref_mismatch"] = ri
    /\ vpc \in {"main", "done"} =>
          Len(reports) + Len(vqueue) = Cardinality(DOMAIN disk)

\* C9: the summary counts the reports and lists them in the order of the
\* file names, and the overall mismatch rate is the largest mismatch_rate of
\* the reports (0 for none, and 0 for a report without one).
C9_OverallIsTheMaximum ==
    vpc = "done" =>
        /\ agg["files_validated"] = Len(reports)
        /\ agg["reports"] = reports
        /\ Len(reports) = Cardinality(DOMAIN disk)
        /\ \A i, j \in 1..Len(reports) :
              i < j => LexLess(reports[i]["file"], reports[j]["file"])
        /\ \A i \in 1..Len(reports) : ~RateLess(overall, RateOf(reports[i]))
        /\ IF reports = << >> THEN overall = <<0, 1>>
           ELSE \E i \in 1..Len(reports) : overall = RateOf(reports[i])

\* Three files with rates 0, 1/50 and 1/100 gave 1/50 (their average is 1/100).
C9_Witness ==
    /\ vpc = "done"
    /\ Len(reports) = 3
    /\ reports[1]["file"] = << 97 >>
    /\ reports[2]["file"] = << 97, 98 >>
    /\ reports[3]["file"] = << 98 >>
    /\ "mismatch_rate" \in DOMAIN reports[1]
    /\ RateOf(reports[1]) = <<0, 1>>
    /\ RateOf(reports[2]) = <<1, 50>>
    /\ RateOf(reports[3]) = <<1, 100>>
    /\ overall = <<1, 50>>

====
